---- MODULE Spec2Model ----
(***************************************************************************)
(* Control/UAV/Ardupilot/RemoteOperation/Task.cpp: the teleoperation       *)
(* bridge between IMC RemoteActions and an ArduSub autopilot (MAVLink).    *)
(*                                                                         *)
(* Representation: floats that only ever hold integers (PWM values, trims, *)
(* steps, parameter values) are integers; m_gain is kept in hundredths     *)
(* (0.20 is 20), so gain_step/100 is gain_step.                            *)
(***************************************************************************)
EXTENDS Integers, Sequences, FiniteSets, TLC

VARIABLES
  phase,          \* task lifecycle: "constructed", "running", "released"
  active,         \* isActive() of the host task
  gain_step,      \* m_args.gain_step
  rc_pwm,         \* int rc_pwm[11]
  rc_reverse,     \* m_args.rc[i].reverse
  m_gain, m_thr_gain, m_lights_step, m_cam_steps,
  m_pitch_trim, m_roll_trim,
  m_sys_status, m_comms, m_gcs,
  m_socket, m_sender,   \* TRUE when the pointer holds a socket
  parser,         \* the MAVLink channel-0 parser status and partial message
  m_buf,          \* the bytes the last receiveData call read
  rx_n,           \* the number of bytes the last handleData call parsed
  rxlog,          \* the messages and drops the last handleData call met
  out,            \* what the last operation handed to sendData, logged or dispatched
  ops,            \* names of the last two operations
  last_ev,        \* the event of the last operation when it was an update
  gcs_prior,      \* m_gcs as it was when control was last taken
  m_timer,        \* ticks elapsed on the heartbeat counter since its last reset
  link_accepts    \* whether the vehicle's end accepts connections at present

vars == <<phase, active, gain_step, rc_pwm, rc_reverse, m_gain, m_thr_gain,
          m_lights_step, m_cam_steps, m_pitch_trim, m_roll_trim, m_sys_status,
          m_comms, m_gcs, m_socket, m_sender, parser, m_buf, rx_n, rxlog, out, ops,
          last_ev, gcs_prior, m_timer, link_accepts>>

ctl == <<gain_step, rc_pwm, rc_reverse, m_gain, m_thr_gain, m_lights_step,
         m_cam_steps, m_pitch_trim, m_roll_trim, m_gcs>>

----------------------------------------------------------------------------
(* Program constants *)

PWM_MAX == 1900
PWM_MIN == 1100
PWM_IDLE == 1500
GAIN_MAX == 100
GAIN_MIN == 10
TRIM_MAX == 200
TRIM_MIN == -200
TRIM_STEP == 10
NCHAN == 11
NAXIS == 6
OVERRIDE_CHANS == 8
SYSID == 254
GCS_DEFAULT == 1
GAIN_INIT == 20
LIGHTS_STEP_INIT == 100
CAM_STEPS_INIT == 50
GAIN_STEP_LO == 2
GAIN_STEP_HI == 10
FS_GCS_DEPTH_HOLD == 3

Pitch == 0
Roll == 1
Throttle == 2
Heading == 3
Forward == 4
Lateral == 5
Camera_Pan == 6
Camera_Tilt == 7
Lights_1_Level == 8
Lights_2_Level == 9
Video_Switch == 10

Chans == 0 .. (NCHAN - 1)

axis == <<"Pitch", "Roll", "Throttle", "Heading", "Forward", "Lateral">>

js_params_id == <<"JS_CAM_TILT_STEP", "JS_GAIN_MAX", "JS_GAIN_MIN",
                  "JS_GAIN_STEPS", "JS_LIGHTS_STEPS", "JS_THR_GAIN">>

InRange(x, lo, hi) == lo <= x /\ x <= hi
Min(a, b) == IF a <= b THEN a ELSE b
Max(a, b) == IF a >= b THEN a ELSE b

----------------------------------------------------------------------------
(* Outbound messages.  Every entry of out has the same shape:              *)
(*   type  the MAVLink message (or "log", "bus")                           *)
(*   name  the parameter, command or log line                              *)
(*   arg   the numbers it carries                                          *)
(*   tx    "sent" (written to the link), "skipped" (not connected),        *)
(*         "fault" (the write threw), "log", "bus"                         *)

Msg(t, n, a) == [type |-> t, name |-> n, arg |-> a, tx |-> "call"]
Note(t, n) == [type |-> t, name |-> n, arg |-> <<>>, tx |-> t]

ParamSet(name, value) == Msg("PARAM_SET", name, <<value>>)
ParamRequestRead(name) == Msg("PARAM_REQUEST_READ", name, <<>>)
ParamRequestList == Msg("PARAM_REQUEST_LIST", "", <<>>)
OperatorControl(release) == Msg("CHANGE_OPERATOR_CONTROL", "", <<release>>)
SetMode(mode) == Msg("SET_MODE", mode, <<>>)
ArmDisarm(v) == Msg("COMMAND_LONG", "COMPONENT_ARM_DISARM", <<v>>)
Heartbeat(status) == Msg("HEARTBEAT", status, <<>>)

\* mavlink_msg_rc_channels_override_pack is given rc_pwm[0] .. rc_pwm[7]
RcOverride(pwm) == Msg("RC_CHANNELS_OVERRIDE", "", [i \in 1 .. OVERRIDE_CHANS |-> pwm[i - 1]])

----------------------------------------------------------------------------
(* The link.  A link record threads the connection state through the sends *)
(* of one operation:                                                       *)
(*   comms, socket, sender   m_comms, m_socket, m_sender                   *)
(*   out                     the trace so far                              *)
(*   connOk                  whether bind/connect succeed at the next      *)
(*                           connection attempt of this operation          *)
(*   reconnOk                whether they succeed at the attempts after it *)
(*   plan                    for the coming writes, TRUE where the write   *)
(*                           (or flush) throws; writes past it succeed     *)

WRITTEN == 1

RECURSIVE sendData(_, _)
RECURSIVE openConnection(_)

requestGCSParam(L) == sendData(L, ParamRequestRead("SYSID_MYGCS"))

setParamByName(L, name, value) ==
  LET L1 == sendData(L, ParamSet(name, value))
  IN [L1 EXCEPT !.out = Append(@, Note("log", "inf: Setting parameter"))]

\* A handshake that sets the failsafe before it asks for the parameter list.
handshakeFailsafeFirst(L) ==
  sendData(setParamByName(L, "FS_GCS_ENABLE", FS_GCS_DEPTH_HOLD), ParamRequestList)

handshake(L) ==
  setParamByName(sendData(L, ParamRequestList), "FS_GCS_ENABLE", FS_GCS_DEPTH_HOLD)

\* An openConnection whose failure path leaves the connection flag as it was.
openConnectionKeepFlag(L) ==
  IF L.connOk
    THEN handshake(requestGCSParam(
           [L EXCEPT !.socket = TRUE, !.sender = TRUE, !.comms = TRUE,
                     !.connOk = L.reconnOk,
                     !.out = Append(@, Note("log", "inf: interface initialized"))]))
    ELSE [L EXCEPT !.socket = FALSE, !.sender = FALSE,
                   !.connOk = L.reconnOk,
                   !.out = Append(@, Note("log", "war: Connection failed"))]

openConnection(L) ==
  IF L.connOk
    THEN handshake(requestGCSParam(
           [L EXCEPT !.socket = TRUE, !.sender = TRUE, !.comms = TRUE,
                     !.connOk = L.reconnOk,
                     !.out = Append(@, Note("log", "inf: interface initialized"))]))
    ELSE [L EXCEPT !.comms = FALSE, !.socket = FALSE, !.sender = FALSE,
                   !.connOk = L.reconnOk,
                   !.out = Append(@, Note("log", "war: Connection failed"))]

\* A sendData that tries to reopen a closed connection.
sendDataReopening(L, m) ==
  IF ~L.comms
    THEN openConnection([L EXCEPT !.out = Append(@, [m EXCEPT !.tx = "skipped"]), !.res = 0])
    ELSE IF L.plan /= <<>> /\ Head(L.plan)
      THEN [openConnection(
             [L EXCEPT !.plan = Tail(@),
                       !.out = Append(Append(@, [m EXCEPT !.tx = "fault"]),
                                      Note("log", "err: Unable to send data"))])
            EXCEPT !.res = 0]
      ELSE [L EXCEPT !.plan = IF @ = <<>> THEN @ ELSE Tail(@),
                     !.out = Append(@, [m EXCEPT !.tx = "sent"]),
                     !.res = WRITTEN]

\* res is the value the call returns: 0 when nothing was written by this
\* call, WRITTEN when the write took the message.
sendData(L, m) ==
  IF ~L.comms
    THEN [L EXCEPT !.out = Append(@, [m EXCEPT !.tx = "skipped"]), !.res = 0]
    ELSE IF L.plan /= <<>> /\ Head(L.plan)
      THEN [openConnection(
             [L EXCEPT !.plan = Tail(@),
                       !.out = Append(Append(@, [m EXCEPT !.tx = "fault"]),
                                      Note("log", "err: Unable to send data"))])
            EXCEPT !.res = 0]
      ELSE [L EXCEPT !.plan = IF @ = <<>> THEN @ ELSE Tail(@),
                     !.out = Append(@, [m EXCEPT !.tx = "sent"]),
                     !.res = WRITTEN]

RECURSIVE sendAll(_, _)
sendAll(L, ms) == IF ms = <<>> THEN L ELSE sendAll(sendData(L, Head(ms)), Tail(ms))

\* The link record at the start of an operation, under link behaviour e.
Link(e) == [comms |-> m_comms, socket |-> m_socket, sender |-> m_sender,
            out |-> <<>>, connOk |-> e.connOk, reconnOk |-> e.reconnOk,
            plan |-> e.plan, res |-> 0]

\* Store the link record back into the task.
Store(L, op) ==
  /\ m_comms' = L.comms
  /\ m_socket' = L.socket
  /\ m_sender' = L.sender
  /\ out' = L.out
  /\ ops' = <<ops[2], op>>

actuate(L, pwm) == sendData(L, RcOverride(pwm))

IdlePwm == [c \in Chans |-> PWM_IDLE]

idle(L) == actuate(L, IdlePwm)

changeMode(L, mode) == sendData(L, SetMode(mode))
arm(L) == sendData(L, ArmDisarm(1))
disarm(L) == sendData(L, ArmDisarm(0))

\* A requestParams that asks for SYSID_MYGCS first.
requestParamsGcsFirst(L) ==
  sendAll(L, <<ParamRequestRead("SYSID_MYGCS")>>
             \o [i \in 1 .. 6 |-> ParamRequestRead(js_params_id[i])])

requestParams(L) ==
  sendAll(L, [i \in 1 .. 6 |-> ParamRequestRead(js_params_id[i])]
             \o <<ParamRequestRead("SYSID_MYGCS")>>)

disableControlRequest(L) ==
  setParamByName(sendData(idle(L), OperatorControl(0)), "SYSID_MYGCS", m_gcs)

disableControl(L) ==
  setParamByName(sendData(idle(L), OperatorControl(1)), "SYSID_MYGCS", m_gcs)

----------------------------------------------------------------------------
(* Link behaviours an operation may meet *)

MaxPlan == 2

\* The plans of at most n writes; one that ends in a successful write is the
\* same behaviour as the plan without it, and is left out.
RECURSIVE Plans(_)
Plans(n) == IF n = 0 THEN {<<>>}
            ELSE {<<>>} \cup {<<b>> \o p : b \in BOOLEAN, p \in Plans(n - 1)}

Faulty(n) == {p \in Plans(n) : p = <<>> \/ p[Len(p)]}

LinkEnvs == [connOk : BOOLEAN, reconnOk : BOOLEAN, plan : Faulty(MaxPlan)]
LinkFine == {[connOk |-> TRUE, reconnOk |-> TRUE, plan |-> <<>>]}

----------------------------------------------------------------------------
(* Wire format of the inbound stream (MAVLink 1 framing):                  *)
(*   STX LEN SEQ SYSID COMPID MSGID PAYLOAD[LEN] CKA CKB                   *)
(* The checksum is modelled as the 16-bit sum of the bytes LEN .. PAYLOAD. *)
(* A PARAM_VALUE payload is <<name index, value high byte, value low       *)
(* byte>>, the value offset by 2^15.                                       *)

MAVLINK_STX == 254
MAVLINK_MSG_ID_HEARTBEAT == 0
MAVLINK_MSG_ID_SYSTEM_TIME == 2
MAVLINK_MSG_ID_PARAM_VALUE == 22
MAVLINK_MSG_ID_RC_CHANNELS == 65
MAVLINK_MSG_ID_ATTITUDE == 30
BYTE == 256
VALUE_OFFSET == 32768
TARGET_ID == 1

ParamNames == js_params_id \o <<"SYSID_MYGCS", "FS_GCS_ENABLE">>

NameIndex(name) == CHOOSE i \in 1 .. Len(ParamNames) : ParamNames[i] = name

RECURSIVE SumSeq(_)
SumSeq(s) == IF s = <<>> THEN 0 ELSE Head(s) + SumSeq(Tail(s))

Checksum(bytes) == SumSeq(bytes) % (BYTE * BYTE)

Frame(msgid, payload) ==
  LET body == <<Len(payload), 0, TARGET_ID, 1, msgid>> \o payload
      ck == Checksum(body)
  IN <<MAVLINK_STX>> \o body \o <<ck % BYTE, ck \div BYTE>>

EncodeValue(v) == <<(v + VALUE_OFFSET) \div BYTE, (v + VALUE_OFFSET) % BYTE>>
DecodeValue(hi, lo) == hi * BYTE + lo - VALUE_OFFSET

ParamValueFrame(name, v) ==
  Frame(MAVLINK_MSG_ID_PARAM_VALUE, <<NameIndex(name)>> \o EncodeValue(v))
HeartbeatFrame == Frame(MAVLINK_MSG_ID_HEARTBEAT, <<4>>)
SysTimeFrame == Frame(MAVLINK_MSG_ID_SYSTEM_TIME, <<>>)
RcChannelsFrame == Frame(MAVLINK_MSG_ID_RC_CHANNELS, <<>>)
AttitudeFrame == Frame(MAVLINK_MSG_ID_ATTITUDE, <<7>>)

\* A frame whose second checksum byte is wrong.
Corrupt(frame) == [frame EXCEPT ![Len(frame)] = (@ + 1) % BYTE]

----------------------------------------------------------------------------
(* mavlink_parse_char: one byte through the channel's parser.              *)
(* Returns the new parser state, rv (a message was completed), drop (the   *)
(* status.packet_rx_drop_count reported for this byte) and the message.    *)

ParserIdle == [st |-> "IDLE", len |-> 0, msgid |-> 0, payload |-> <<>>, ck |-> 0]

Restart(c) ==
  IF c = MAVLINK_STX THEN [ParserIdle EXCEPT !.st = "GOT_STX"] ELSE ParserIdle

Step(P, rv, drop) == [P |-> P, rv |-> rv, drop |-> drop]

mavlink_parse_char(P, c) ==
  LET ck == (P.ck + c) % (BYTE * BYTE)
  IN CASE P.st = "IDLE" -> Step(Restart(c), FALSE, 0)
       [] P.st = "GOT_STX" ->
            Step([P EXCEPT !.st = "GOT_LENGTH", !.len = c, !.ck = ck], FALSE, 0)
       [] P.st = "GOT_LENGTH" -> Step([P EXCEPT !.st = "GOT_SEQ", !.ck = ck], FALSE, 0)
       [] P.st = "GOT_SEQ" -> Step([P EXCEPT !.st = "GOT_SYSID", !.ck = ck], FALSE, 0)
       [] P.st = "GOT_SYSID" -> Step([P EXCEPT !.st = "GOT_COMPID", !.ck = ck], FALSE, 0)
       [] P.st = "GOT_COMPID" ->
            Step([P EXCEPT !.st = IF P.len = 0 THEN "GOT_PAYLOAD" ELSE "GOT_MSGID",
                           !.msgid = c, !.ck = ck], FALSE, 0)
       [] P.st = "GOT_MSGID" ->
            Step([P EXCEPT !.st = IF Len(P.payload) + 1 = P.len
                                    THEN "GOT_PAYLOAD" ELSE "GOT_MSGID",
                           !.payload = Append(@, c), !.ck = ck], FALSE, 0)
       [] P.st = "GOT_PAYLOAD" ->
            IF c /= P.ck % BYTE
              THEN Step(Restart(c), FALSE, 1)
              ELSE Step([P EXCEPT !.st = "GOT_CRC1"], FALSE, 0)
       [] P.st = "GOT_CRC1" ->
            IF c /= P.ck \div BYTE
              THEN Step(Restart(c), FALSE, 1)
              ELSE [P |-> ParserIdle, rv |-> TRUE, drop |-> 0,
                    msgid |-> P.msgid, payload |-> P.payload]

----------------------------------------------------------------------------
(* Packet handlers *)

NoHandler == ""

\* m_mlh: the handler registered for a message id, NoHandler when none is.
m_mlh_heartbeat(msgid) ==
  CASE msgid = MAVLINK_MSG_ID_PARAM_VALUE -> "handleParams"
    [] msgid = MAVLINK_MSG_ID_SYSTEM_TIME -> "handleSysTime"
    [] msgid = MAVLINK_MSG_ID_RC_CHANNELS -> "handleRC"
    [] msgid = MAVLINK_MSG_ID_HEARTBEAT -> "handleSysTime"
    [] OTHER -> NoHandler

m_mlh(msgid) ==
  CASE msgid = MAVLINK_MSG_ID_PARAM_VALUE -> "handleParams"
    [] msgid = MAVLINK_MSG_ID_SYSTEM_TIME -> "handleSysTime"
    [] msgid = MAVLINK_MSG_ID_RC_CHANNELS -> "handleRC"
    [] OTHER -> NoHandler

\* The fields handleParams may write, as a record threaded through handleData.
ParamState == [thr |-> m_thr_gain, lights |-> m_lights_step, cam |-> m_cam_steps,
               gcs |-> m_gcs, warned |-> FALSE]

\* A handleParams that records any owner other than the recorded one.
handleParamsAnyOwner(S, payload) ==
  LET id == IF payload /= <<>> /\ payload[1] \in 1 .. Len(ParamNames)
              THEN ParamNames[payload[1]] ELSE ""
      value == IF Len(payload) >= 3 THEN DecodeValue(payload[2], payload[3]) ELSE 0
  IN CASE id = js_params_id[6] -> [S EXCEPT !.thr = value]
       [] id = js_params_id[5] -> [S EXCEPT !.lights = value]
       [] id = js_params_id[1] -> [S EXCEPT !.cam = value]
       [] id = js_params_id[4] /\ gain_step /= value -> S
       [] id = "SYSID_MYGCS" /\ S.gcs /= value ->
            [S EXCEPT !.gcs = value, !.warned = @ \/ active]
       [] OTHER -> S

\* A handleParams that warns whether or not the task is active.
handleParamsWarnAlways(S, payload) ==
  LET id == IF payload /= <<>> /\ payload[1] \in 1 .. Len(ParamNames)
              THEN ParamNames[payload[1]] ELSE ""
      value == IF Len(payload) >= 3 THEN DecodeValue(payload[2], payload[3]) ELSE 0
  IN CASE id = js_params_id[6] -> [S EXCEPT !.thr = value]
       [] id = js_params_id[5] -> [S EXCEPT !.lights = value]
       [] id = js_params_id[1] -> [S EXCEPT !.cam = value]
       [] id = js_params_id[4] /\ gain_step /= value -> S
       [] id = "SYSID_MYGCS" /\ S.gcs /= value /\ SYSID /= value ->
            [S EXCEPT !.gcs = value, !.warned = TRUE]
       [] OTHER -> S

handleParams(S, payload) ==
  LET id == IF payload /= <<>> /\ payload[1] \in 1 .. Len(ParamNames)
              THEN ParamNames[payload[1]] ELSE ""
      value == IF Len(payload) >= 3 THEN DecodeValue(payload[2], payload[3]) ELSE 0
  IN CASE id = js_params_id[6] -> [S EXCEPT !.thr = value]
       [] id = js_params_id[5] -> [S EXCEPT !.lights = value]
       [] id = js_params_id[1] -> [S EXCEPT !.cam = value]
       [] id = js_params_id[4] /\ gain_step /= value -> S
       [] id = "SYSID_MYGCS" /\ S.gcs /= value /\ SYSID /= value ->
            [S EXCEPT !.gcs = value, !.warned = @ \/ active]
       [] OTHER -> S

CallHandler(h, S, payload) == IF h = "handleParams" THEN handleParams(S, payload) ELSE S

\* handleData: bytes buf[i..] through the parser, dispatching each completed
\* message; R carries the parser, the handlers' state, the number of bytes
\* parsed and the log: one record for each byte at which the parser
\* completed a message or reported a drop.
RxRecord(i, r, h) == [at |-> i, rv |-> r.rv, drop |-> r.drop,
                      msgid |-> IF r.rv THEN r.msgid ELSE -1, call |-> h]

DispatchNoLookup(R, r, i) ==
  LET h == IF r.rv THEN "handleParams" ELSE NoHandler
  IN [P |-> r.P,
      S |-> IF h /= NoHandler THEN CallHandler(h, R.S, r.payload) ELSE R.S,
      n |-> i,
      log |-> IF r.rv \/ r.drop /= 0 THEN Append(R.log, RxRecord(i, r, h)) ELSE R.log]

\* What handleData does with the parser's answer r for byte i.
Dispatch(R, r, i) ==
  LET h == IF r.rv THEN m_mlh(r.msgid) ELSE NoHandler
  IN [P |-> r.P,
      S |-> IF h /= NoHandler THEN CallHandler(h, R.S, r.payload) ELSE R.S,
      n |-> i,
      log |-> IF r.rv \/ r.drop /= 0 THEN Append(R.log, RxRecord(i, r, h)) ELSE R.log]

Only(S) == CHOOSE x \in S : TRUE

RECURSIVE handleDataFrom(_, _, _)
handleDataNoReturn(R, buf, i) ==
  IF i > Len(buf) THEN R
  ELSE Only({handleDataFrom(R1, buf, i + 1) :
               R1 \in {Dispatch(R, r, i) : r \in {mavlink_parse_char(R.P, buf[i])}}})

handleDataFrom(R, buf, i) ==
  IF i > Len(buf) THEN R
  ELSE Only({IF r.drop /= 0
               THEN [R EXCEPT !.P = r.P, !.n = i,
                              !.log = Append(@, RxRecord(i, r, NoHandler))]
               ELSE Only({handleDataFrom(R1, buf, i + 1) : R1 \in {Dispatch(R, r, i)}}) :
             r \in {mavlink_parse_char(R.P, buf[i])}})

handleData(buf) ==
  handleDataFrom([P |-> parser, S |-> ParamState, n |-> 0, log |-> <<>>], buf, 1)

----------------------------------------------------------------------------
(* Channel calibration: the configured input ranges (the defaults of the   *)
(* "RC n MAX/MIN/Neutral" parameters) and the PWM range set at resource    *)
(* acquisition.                                                            *)

val_max == <<180, 180, 1000, 180, 1000, 1000>>
val_min == <<-180, -180, -1000, -180, -1000, -1000>>
val_neutral == <<0, 0, 0, 90, 0, 0>>

Clamp(x, lo, hi) == Max(lo, Min(x, hi))

\* MAVLink::mapRC2PWM for channel ch with reverse flag rev; x100 is the
\* gain-scaled value in hundredths.  Linear on each side of neutral, the
\* direction inverted around neutral when rev is set, limited to the PWM range.
mapRC2PWM(ch, rev, x100) ==
  LET n == val_neutral[ch + 1] * 100
      d == IF rev THEN n - x100 ELSE x100 - n
      raw == IF d >= 0
               THEN PWM_IDLE + (d * (PWM_MAX - PWM_IDLE)) \div (val_max[ch + 1] * 100 - n)
               ELSE PWM_IDLE - ((-d) * (PWM_IDLE - PWM_MIN)) \div (n - val_min[ch + 1] * 100)
  IN Clamp(raw, PWM_MIN, PWM_MAX)

isReversibleAxis(channel) == channel \in {Forward, Lateral, Throttle, Heading}

----------------------------------------------------------------------------
(* Operator-intent events: btn is the set of buttons whose tuple value is   *)
(* 1; ax maps the channels of the axes the tuple list has a value for to    *)
(* that value (tl.get gives NAN for the others).                           *)

Buttons == {"GainUP", "GainDown", "TiltUP", "TiltDown", "Center", "LightBrighter",
            "LightDimmer", "PitchForward", "PitchBackward", "RollRight", "RollLeft",
            "Stabilize", "DepthHold", "PositionHold", "Manual", "Disarm", "Arm"}

Event(btn, ax) == [btn |-> btn, ax |-> ax]
NoAxes == [c \in {} |-> 0]
NoEvent == Event({}, NoAxes)

----------------------------------------------------------------------------
(* onRemoteActions, step by step *)

gainNoClamp(g, btn) ==
  IF "GainUP" \in btn THEN g + gain_step
  ELSE IF "GainDown" \in btn THEN g - gain_step
  ELSE g

\* A gain step in which GainDown is looked at first.
gainDownFirst(g, btn) ==
  IF "GainDown" \in btn THEN Max(g - gain_step, GAIN_MIN)
  ELSE IF "GainUP" \in btn THEN Min(g + gain_step, GAIN_MAX)
  ELSE g

gainAfter(g, btn) ==
  IF "GainUP" \in btn THEN Min(g + gain_step, GAIN_MAX)
  ELSE IF "GainDown" \in btn THEN Max(g - gain_step, GAIN_MIN)
  ELSE g

\* A reverse flag that is set only strictly below neutral.
axisReverseBelow(ch, ax, g) ==
  IF ch \in DOMAIN ax
    THEN IF isReversibleAxis(ch) THEN FALSE ELSE ax[ch] * g < val_neutral[ch + 1] * 100
    ELSE FALSE

\* The reverse flag and pulse of axis channel ch under gain g (hundredths).
axisReverse(ch, ax, g) ==
  IF ch \in DOMAIN ax
    THEN IF isReversibleAxis(ch) THEN FALSE ELSE ax[ch] * g <= val_neutral[ch + 1] * 100
    ELSE FALSE

\* An axis step that leaves a channel without input at its last value.
axisPwmStale(ch, ax, g) ==
  IF ch \in DOMAIN ax
    THEN mapRC2PWM(ch, axisReverse(ch, ax, g), ax[ch] * g)
    ELSE rc_pwm[ch]

axisPwm(ch, ax, g) ==
  IF ch \in DOMAIN ax
    THEN mapRC2PWM(ch, axisReverse(ch, ax, g), ax[ch] * g)
    ELSE PWM_IDLE

\* A tilt step taken from the idle pulse instead of the channel's value.
tiltFromIdle(cur, btn) ==
  IF "TiltUP" \in btn THEN Min(PWM_IDLE + m_cam_steps, PWM_MAX)
  ELSE IF "TiltDown" \in btn THEN Max(PWM_IDLE - m_cam_steps, PWM_MIN)
  ELSE PWM_IDLE

tiltAfter(cur, btn) ==
  IF "TiltUP" \in btn THEN Min(cur + m_cam_steps, PWM_MAX)
  ELSE IF "TiltDown" \in btn THEN Max(cur - m_cam_steps, PWM_MIN)
  ELSE IF "Center" \in btn THEN PWM_IDLE
  ELSE cur

\* A light step that writes the first light channel only.
lightsFirstOnly(pwm, btn) ==
  IF "LightBrighter" \in btn
    THEN [pwm EXCEPT ![Lights_1_Level] = Min(@ + m_lights_step, PWM_MAX)]
  ELSE IF "LightDimmer" \in btn
    THEN [pwm EXCEPT ![Lights_1_Level] = Max(@ - m_lights_step, PWM_MIN)]
  ELSE pwm

\* Both light channels take the value computed from Lights_1_Level.
lightsAfter(pwm, btn) ==
  IF "LightBrighter" \in btn
    THEN LET newV == Min(pwm[Lights_1_Level] + m_lights_step, PWM_MAX)
         IN [pwm EXCEPT ![Lights_1_Level] = newV, ![Lights_2_Level] = newV]
  ELSE IF "LightDimmer" \in btn
    THEN LET newV == Max(pwm[Lights_1_Level] - m_lights_step, PWM_MIN)
         IN [pwm EXCEPT ![Lights_1_Level] = newV, ![Lights_2_Level] = newV]
  ELSE pwm

trimNoClamp(t, btn, up, down) ==
  LET t1 == IF up \in btn THEN t + TRIM_STEP ELSE t
  IN IF down \in btn THEN t1 - TRIM_STEP ELSE t1

\* One trim: the "up" button first, then the "down" button.
trimAfter(t, btn, up, down) ==
  LET t1 == IF up \in btn THEN Min(t + TRIM_STEP, TRIM_MAX) ELSE t
  IN IF down \in btn THEN Max(t1 - TRIM_STEP, TRIM_MIN) ELSE t1

ModeButtons == <<"Stabilize", "DepthHold", "PositionHold", "Manual">>

\* The mode-change commands of one update, in the order they are issued.
RECURSIVE modeCommandsFrom(_, _)
modeCommandsFrom(btn, i) ==
  IF i > Len(ModeButtons) THEN <<>>
  ELSE (IF ModeButtons[i] \in btn THEN <<SetMode(ModeButtons[i])>> ELSE <<>>)
       \o modeCommandsFrom(btn, i + 1)

modeCommandsFirstOnly(btn) ==
  LET all == modeCommandsFrom(btn, 1) IN IF all = <<>> THEN all ELSE <<Head(all)>>

modeCommands(btn) == modeCommandsFrom(btn, 1)

\* Arm and Disarm treated as alternatives, Disarm looked at first.
armCommandsExclusive(btn) ==
  IF "Disarm" \in btn THEN <<ArmDisarm(0)>>
  ELSE IF "Arm" \in btn THEN <<ArmDisarm(1)>>
  ELSE <<>>

armCommands(btn) ==
  (IF "Disarm" \in btn THEN <<ArmDisarm(0)>> ELSE <<>>)
  \o (IF "Arm" \in btn THEN <<ArmDisarm(1)>> ELSE <<>>)

pwmAfter(ev, g) ==
  LET axes == [c \in Chans |-> IF c < NAXIS THEN axisPwm(c, ev.ax, g) ELSE rc_pwm[c]]
      tilt == [axes EXCEPT ![Camera_Tilt] = tiltAfter(@, ev.btn)]
  IN lightsAfter(tilt, ev.btn)

onRemoteActions(ev, e) ==
  /\ phase = "running"
  /\ LET g == gainAfter(m_gain, ev.btn)
         pwm == pwmAfter(ev, g)
     IN /\ m_gain' = g
        /\ rc_pwm' = pwm
        /\ rc_reverse' = [c \in Chans |-> IF c < NAXIS THEN axisReverse(c, ev.ax, g)
                                          ELSE rc_reverse[c]]
        /\ m_pitch_trim' = trimAfter(m_pitch_trim, ev.btn, "PitchForward", "PitchBackward")
        /\ m_roll_trim' = trimAfter(m_roll_trim, ev.btn, "RollRight", "RollLeft")
        /\ \E L \in {actuate(sendAll(Link(e), modeCommands(ev.btn) \o armCommands(ev.btn)),
                               pwm)} :
             Store(L, "RemoteActions")
  /\ rxlog' = <<>> /\ rx_n' = 0
  /\ last_ev' = ev
  /\ UNCHANGED <<m_timer, link_accepts,
                 phase, active, gain_step, m_thr_gain, m_lights_step, m_cam_steps,
                 m_sys_status, m_gcs, parser, m_buf, gcs_prior>>

----------------------------------------------------------------------------
(* Lifecycle and session operations *)

onResourceAcquisition(e) ==
  /\ phase \in {"constructed", "released"}
  /\ phase' = "running"
  /\ rc_reverse' = [c \in Chans |-> FALSE]
  /\ m_sys_status' = "BOOT"
  /\ \E L \in {openConnection(Link(e))} : Store(L, "ResourceAcquisition")
  /\ rxlog' = <<>> /\ rx_n' = 0
  /\ last_ev' = NoEvent
  /\ UNCHANGED <<m_timer, link_accepts,
                 active, gain_step, rc_pwm, m_gain, m_thr_gain, m_lights_step,
                 m_cam_steps, m_pitch_trim, m_roll_trim, m_gcs, parser, m_buf,
                 gcs_prior>>

\* The host task becomes active (onActivation is not overridden).
Activate ==
  /\ phase = "running" /\ ~active
  /\ active' = TRUE
  /\ out' = <<>> /\ rxlog' = <<>> /\ rx_n' = 0 /\ ops' = <<ops[2], "Activation">>
  /\ last_ev' = NoEvent
  /\ UNCHANGED <<m_timer, link_accepts,
                 phase, gain_step, rc_pwm, rc_reverse, m_gain, m_thr_gain,
                 m_lights_step, m_cam_steps, m_pitch_trim, m_roll_trim,
                 m_sys_status, m_comms, m_gcs, m_socket, m_sender, parser, m_buf,
                 gcs_prior>>

consumeTeleoperation(e) ==
  /\ phase = "running"
  /\ m_sys_status' = "ACTIVE"
  /\ rc_pwm' = IdlePwm
  /\ gcs_prior' = m_gcs
  /\ LET L1 == sendData(setParamByName(Link(e), "SYSID_MYGCS", SYSID), OperatorControl(0))
         L2 == idle(arm(changeMode(requestParams(L1), "Manual")))
         L3 == [L2 EXCEPT !.out = Append(Append(@, Note("log", "war: Started Teleoperation")),
                                         Note("bus", "enableControlLoops"))]
     IN \E L \in {L3} : Store(L, "Teleoperation")
  /\ rxlog' = <<>> /\ rx_n' = 0
  /\ last_ev' = NoEvent
  /\ UNCHANGED <<m_timer, link_accepts,
                 phase, active, gain_step, rc_reverse, m_gain, m_thr_gain,
                 m_lights_step, m_cam_steps, m_pitch_trim, m_roll_trim, m_gcs,
                 parser, m_buf>>

consumeTeleoperationDone(e) ==
  /\ phase = "running"
  /\ m_sys_status' = "STANDBY"
  /\ rc_pwm' = IdlePwm
  /\ \E L \in {disableControl(Link(e))} : Store(L, "TeleoperationDone")
  /\ rxlog' = <<>> /\ rx_n' = 0
  /\ last_ev' = NoEvent
  /\ UNCHANGED <<m_timer, link_accepts,
                 phase, active, gain_step, rc_reverse, m_gain, m_thr_gain,
                 m_lights_step, m_cam_steps, m_pitch_trim, m_roll_trim, m_gcs,
                 parser, m_buf, gcs_prior>>

onDeactivation(e) ==
  /\ phase = "running" /\ active
  /\ active' = FALSE
  /\ m_sys_status' = "STANDBY"
  /\ rc_pwm' = IdlePwm
  /\ \E L \in {disableControl(Link(e))} :
        Store([L EXCEPT !.out = Append(@, Note("log", "war: Deactivating Ardupilot control"))],
              "Deactivation")
  /\ rxlog' = <<>> /\ rx_n' = 0
  /\ last_ev' = NoEvent
  /\ UNCHANGED <<m_timer, link_accepts,
                 phase, gain_step, rc_reverse, m_gain, m_thr_gain, m_lights_step,
                 m_cam_steps, m_pitch_trim, m_roll_trim, m_gcs, parser, m_buf,
                 gcs_prior>>

\* stopping is isStopping() of the host task.
onResourceRelease(stopping, e) ==
  /\ phase = "running"
  /\ phase' = "released"
  /\ LET dis == active /\ stopping
     IN /\ m_sys_status' = IF dis THEN "POWEROFF" ELSE "STANDBY"
        /\ rc_pwm' = IF dis THEN IdlePwm ELSE rc_pwm
        /\ \E L \in {IF dis THEN disableControl(Link(e)) ELSE Link(e)} :
             Store([L EXCEPT !.socket = FALSE, !.sender = FALSE], "ResourceRelease")
  /\ rxlog' = <<>> /\ rx_n' = 0
  /\ last_ev' = NoEvent
  /\ UNCHANGED <<m_timer, link_accepts,
                 active, gain_step, rc_reverse, m_gain, m_thr_gain, m_lights_step,
                 m_cam_steps, m_pitch_trim, m_roll_trim, m_gcs, parser, m_buf,
                 gcs_prior>>

----------------------------------------------------------------------------
(* The main loop's steps *)

\* One pass of the drain loop: receiveData reads buf, handleData parses it.
receive(buf) ==
  /\ phase = "running" /\ m_socket
  /\ \E R \in {handleData(buf)} :
        /\ parser' = R.P
        /\ rxlog' = R.log
        /\ rx_n' = R.n
        /\ m_thr_gain' = R.S.thr
        /\ m_lights_step' = R.S.lights
        /\ m_cam_steps' = R.S.cam
        /\ m_gcs' = R.S.gcs
        /\ out' = IF R.S.warned
                    THEN <<Note("log", "war: Ardupilot Ground Control Station is not DUNE")>>
                    ELSE <<>>
  /\ m_buf' = buf
  /\ last_ev' = NoEvent
  /\ ops' = <<ops[2], "Receive">>
  /\ UNCHANGED <<m_timer, link_accepts,
                 phase, active, gain_step, rc_pwm, rc_reverse, m_gain, m_pitch_trim,
                 m_roll_trim, m_sys_status, m_comms, m_socket, m_sender, gcs_prior>>

\* The read throws: the socket is dropped, the connection reopened, and
\* handleData is given 0 bytes.
receiveFault(e) ==
  /\ phase = "running" /\ m_socket
  /\ \E L \in {openConnection([Link(e) EXCEPT
                                   !.socket = FALSE,
                                   !.out = <<Note("log", "err: Error Receiving data")>>])} :
        Store(L, "ReceiveFault")
  /\ rxlog' = <<>> /\ rx_n' = 0
  /\ last_ev' = NoEvent
  /\ UNCHANGED <<m_timer, link_accepts,
                 phase, active, gain_step, rc_pwm, rc_reverse, m_gain, m_thr_gain,
                 m_lights_step, m_cam_steps, m_pitch_trim, m_roll_trim, m_sys_status,
                 m_gcs, parser, m_buf, gcs_prior>>

\* A reopen that leaves the heartbeat counter running.
reopenKeepTimer(e) ==
  /\ phase = "running" /\ ~m_socket
  /\ \E L \in {openConnection(Link(e))} : Store(L, "Reopen")
  /\ rxlog' = <<>> /\ rx_n' = 0
  /\ last_ev' = NoEvent
  /\ UNCHANGED <<m_timer, link_accepts,
                 phase, active, gain_step, rc_pwm, rc_reverse, m_gain, m_thr_gain,
                 m_lights_step, m_cam_steps, m_pitch_trim, m_roll_trim, m_sys_status,
                 m_gcs, parser, m_buf, gcs_prior>>

\* No inbound socket: back off, reopen, and reset the heartbeat counter.
reopen(e) ==
  /\ phase = "running" /\ ~m_socket
  /\ \E L \in {openConnection(Link(e))} : Store(L, "Reopen")
  /\ rxlog' = <<>> /\ rx_n' = 0
  /\ last_ev' = NoEvent
  /\ m_timer' = 0
  /\ UNCHANGED <<link_accepts,
                 phase, active, gain_step, rc_pwm, rc_reverse, m_gain, m_thr_gain,
                 m_lights_step, m_cam_steps, m_pitch_trim, m_roll_trim, m_sys_status,
                 m_gcs, parser, m_buf, gcs_prior>>

----------------------------------------------------------------------------
(* The heartbeat counter.  m_timer is a Time::Counter<float> with top 1.0;  *)
(* time is counted in ticks, HEARTBEAT_TICKS of them to the period.         *)
(* overflow() is true when a period has elapsed since the last reset, and   *)
(* the counter fires once per period: answering true starts a new period.   *)

HEARTBEAT_TICKS == 2

overflow(t) == t >= HEARTBEAT_TICKS
afterOverflow(t) == IF overflow(t) THEN 0 ELSE t

\* Time passes.
Tick ==
  /\ m_timer' = Min(m_timer + 1, HEARTBEAT_TICKS)
  /\ out' = <<>> /\ rxlog' = <<>> /\ rx_n' = 0 /\ ops' = <<ops[2], "Tick">>
  /\ last_ev' = NoEvent
  /\ UNCHANGED <<link_accepts, phase, active, gain_step, rc_pwm, rc_reverse, m_gain,
                 m_thr_gain, m_lights_step, m_cam_steps, m_pitch_trim, m_roll_trim,
                 m_sys_status, m_comms, m_gcs, m_socket, m_sender, parser, m_buf,
                 gcs_prior>>

\* The vehicle's end starts or stops accepting connections.
linkChange ==
  /\ link_accepts' = ~link_accepts
  /\ out' = <<>> /\ rxlog' = <<>> /\ rx_n' = 0 /\ ops' = <<ops[2], "LinkChange">>
  /\ last_ev' = NoEvent
  /\ UNCHANGED <<m_timer, phase, active, gain_step, rc_pwm, rc_reverse, m_gain,
                 m_thr_gain, m_lights_step, m_cam_steps, m_pitch_trim, m_roll_trim,
                 m_sys_status, m_comms, m_gcs, m_socket, m_sender, parser, m_buf,
                 gcs_prior>>

\* A main loop that sends a heartbeat on every pass.
onMainHeartbeatAlways(e) ==
  /\ phase = "running" /\ m_socket
  /\ \E L \in {sendData(Link(e), Heartbeat(m_sys_status))} : Store(L, "Heartbeat")
  /\ m_timer' = afterOverflow(m_timer)
  /\ rxlog' = <<>> /\ rx_n' = 0
  /\ last_ev' = NoEvent
  /\ UNCHANGED <<link_accepts, phase, active, gain_step, rc_pwm, rc_reverse, m_gain,
                 m_thr_gain, m_lights_step, m_cam_steps, m_pitch_trim, m_roll_trim,
                 m_sys_status, m_gcs, parser, m_buf, gcs_prior>>

\* One pass of the main loop with the inbound socket present, after the
\* reads: the heartbeat is sent when the counter has overflowed.
onMainHeartbeat(e) ==
  /\ phase = "running" /\ m_socket
  /\ IF overflow(m_timer)
       THEN \E L \in {sendData(Link(e), Heartbeat(m_sys_status))} : Store(L, "Heartbeat")
       ELSE \E L \in {Link(e)} : Store(L, "MainLoop")
  /\ m_timer' = afterOverflow(m_timer)
  /\ rxlog' = <<>> /\ rx_n' = 0
  /\ last_ev' = NoEvent
  /\ UNCHANGED <<link_accepts, phase, active, gain_step, rc_pwm, rc_reverse, m_gain,
                 m_thr_gain, m_lights_step, m_cam_steps, m_pitch_trim, m_roll_trim,
                 m_sys_status, m_gcs, parser, m_buf, gcs_prior>>

----------------------------------------------------------------------------
(* Initial state: the task as constructed.  rc_pwm is a namespace-scope    *)
(* array, zero-initialised.  m_thr_gain, the socket pointers and the       *)
(* reverse flags are not set by the constructor and not read before they   *)
(* are written; they start at 0, no socket and FALSE here.                 *)

InitWith(steps) ==
  /\ phase = "constructed"
  /\ active = FALSE
  /\ gain_step \in steps
  /\ rc_pwm = [c \in Chans |-> 0]
  /\ rc_reverse = [c \in Chans |-> FALSE]
  /\ m_gain = GAIN_INIT
  /\ m_thr_gain = 0
  /\ m_lights_step = LIGHTS_STEP_INIT
  /\ m_cam_steps = CAM_STEPS_INIT
  /\ m_pitch_trim = 0
  /\ m_roll_trim = 0
  /\ m_sys_status = "UNINIT"
  /\ m_comms = FALSE
  /\ m_gcs = GCS_DEFAULT
  /\ m_socket = FALSE
  /\ m_sender = FALSE
  /\ parser = ParserIdle
  /\ m_buf = <<>>
  /\ rxlog = <<>>
  /\ rx_n = 0
  /\ out = <<>>
  /\ ops = <<"", "Task">>
  /\ last_ev = NoEvent
  /\ gcs_prior = GCS_DEFAULT
  /\ m_timer = 0
  /\ link_accepts = TRUE

----------------------------------------------------------------------------
(* Session specification: lifecycle, taking and releasing control, the     *)
(* SYSID_MYGCS replies, and a link that may refuse connections and writes. *)

GcsValues == {7, 254, 255}
SessionBuffers == {ParamValueFrame("SYSID_MYGCS", v) : v \in GcsValues}
SessionEvents == {Event({}, NoAxes), Event({}, (Forward :> 1000))}

Init == InitWith({GAIN_STEP_HI})

Acquire == \E e \in LinkEnvs : onResourceAcquisition(e)
Release == \E e \in LinkEnvs, stopping \in BOOLEAN : onResourceRelease(stopping, e)
Deactivate == \E e \in LinkEnvs : onDeactivation(e)
Start == \E e \in LinkEnvs : consumeTeleoperation(e)
Stop == \E e \in LinkEnvs : consumeTeleoperationDone(e)
Update == \E e \in LinkEnvs, ev \in SessionEvents : onRemoteActions(ev, e)
Receive == \E buf \in SessionBuffers : receive(buf)
ReceiveFault == \E e \in LinkEnvs : receiveFault(e)
Reopen == \E e \in LinkEnvs : reopen(e)

Next ==
  \/ Acquire \/ Release \/ Activate \/ Deactivate \/ Start \/ Stop
  \/ Update \/ Receive \/ ReceiveFault \/ Reopen

Spec == Init /\ [][Next]_vars

----------------------------------------------------------------------------
(* Gain specification: every configurable gain step, updates with every    *)
(* combination of the two gain buttons, and the JS_GAIN_* replies.         *)

GainSteps == GAIN_STEP_LO .. GAIN_STEP_HI
GainEvents == {Event(b, NoAxes) : b \in SUBSET {"GainUP", "GainDown"}}
GainBuffers == {ParamValueFrame("JS_GAIN_MAX", 5), ParamValueFrame("JS_GAIN_STEPS", 200)}

InitGain == InitWith(GainSteps)
AcquireUp == onResourceAcquisition(CHOOSE e \in LinkFine : TRUE)
UpdateGain == \E ev \in GainEvents : onRemoteActions(ev, CHOOSE e \in LinkFine : TRUE)
ReceiveGain == \E buf \in GainBuffers : receive(buf)
StartUp == consumeTeleoperation(CHOOSE e \in LinkFine : TRUE)

NextGain == AcquireUp \/ UpdateGain \/ ReceiveGain

SpecGain == InitGain /\ [][NextGain]_vars

----------------------------------------------------------------------------
(* Trim specification: updates with every combination of the four trim     *)
(* buttons.                                                                *)

TrimButtons == {"PitchForward", "PitchBackward", "RollRight", "RollLeft"}
TrimEvents == {Event(b, NoAxes) : b \in SUBSET TrimButtons}

UpdateTrim == \E ev \in TrimEvents : onRemoteActions(ev, CHOOSE e \in LinkFine : TRUE)

NextTrim == AcquireUp \/ UpdateTrim \/ StartUp

SpecTrim == Init /\ [][NextTrim]_vars

----------------------------------------------------------------------------
(* Mode specification: updates with every combination of the four mode     *)
(* buttons and the Arm and Disarm buttons, over a link that may be down.   *)

ModeEvents == {Event(b, NoAxes) :
                 b \in SUBSET {"Stabilize", "DepthHold", "PositionHold", "Manual",
                               "Arm", "Disarm"}}
LinkUpOrDown == {e \in LinkEnvs : e.plan = <<>> /\ e.reconnOk = e.connOk}

AcquireAny == \E e \in LinkUpOrDown : onResourceAcquisition(e)
UpdateMode == \E ev \in ModeEvents, e \in LinkUpOrDown : onRemoteActions(ev, e)
ReopenAny == \E e \in LinkUpOrDown : reopen(e)

NextMode == AcquireAny \/ UpdateMode \/ ReopenAny

SpecMode == Init /\ [][NextMode]_vars

----------------------------------------------------------------------------
(* Receive specification: buffers made of a first frame, a middle and a    *)
(* last frame, each possibly absent.  Frames are valid messages with and   *)
(* without a registered handler and the two halves of a frame split across *)
(* reads; the middle is garbage (with or without a start-of-frame byte in  *)
(* it) or a frame with a bad checksum.                                     *)

GarbageLen == 3
SplitAt == 5

PlainGarbage == [i \in 1 .. GarbageLen |-> i + 16]
StxGarbage == [PlainGarbage EXCEPT ![1] = MAVLINK_STX, ![2] = 0]

CamFrame == ParamValueFrame("JS_CAM_TILT_STEP", 60)

RxFirst == {<<>>, HeartbeatFrame, AttitudeFrame, CamFrame,
            SubSeq(CamFrame, SplitAt + 1, Len(CamFrame))}
RxMiddles == {<<>>, PlainGarbage, StxGarbage, Corrupt(CamFrame)}
RxLast == {<<>>, SysTimeFrame, RcChannelsFrame, CamFrame, SubSeq(CamFrame, 1, SplitAt)}
RxBuffers == {f1 \o g \o f2 : f1 \in RxFirst, g \in RxMiddles, f2 \in RxLast}

\* A parser that has lost framing can take a start-of-frame byte for a length
\* and swallow what follows; runs are followed while the payload it has
\* collected stays within MaxPending bytes.
MaxPending == 3

ReceiveRx == \E buf \in RxBuffers : receive(buf) /\ Len(parser'.payload) <= MaxPending

NextRx == AcquireUp \/ ReceiveRx

SpecRx == Init /\ [][NextRx]_vars

----------------------------------------------------------------------------
(* Pulse-width specification: a session in which the vehicle reports camera *)
(* tilt and light steps of either sign and the operator moves the camera    *)
(* and the lights.                                                          *)

PwmFloor == 600
PwmCeil == 2400
TiltSteps == {-300, 50}
PwmBuffers == {ParamValueFrame("JS_CAM_TILT_STEP", v) : v \in TiltSteps}
PwmEvents == {Event({b}, NoAxes) : b \in {"TiltUP", "TiltDown", "Center", "LightBrighter"}}

UpdatePwm ==
  /\ \E ev \in PwmEvents : onRemoteActions(ev, CHOOSE e \in LinkFine : TRUE)
  /\ \A c \in Chans : InRange(rc_pwm'[c], PwmFloor, PwmCeil)
ReceivePwm == \E buf \in PwmBuffers : receive(buf)

NextPwm == AcquireUp \/ StartUp \/ UpdatePwm \/ ReceivePwm

SpecPwm == Init /\ [][NextPwm]_vars

----------------------------------------------------------------------------
(* Link specification: updates that move the gain and the trims, over a     *)
(* link that may refuse connections and fault on writes.                    *)

LinkEvents == {Event(b, NoAxes) : b \in {{}, {"GainUP", "PitchForward"}, {"GainDown"}}}

AcquireLink == \E e \in LinkEnvs : onResourceAcquisition(e)
UpdateLink == \E e \in LinkEnvs, ev \in LinkEvents : onRemoteActions(ev, e)
ReopenLink == \E e \in LinkEnvs : reopen(e)

NextLink == AcquireLink \/ UpdateLink \/ ReopenLink

SpecLink == Init /\ [][NextLink]_vars

----------------------------------------------------------------------------
(* Main-loop specification: the loop's heartbeat and reopen branches, read  *)
(* faults and the passing of time, over a link whose end accepts or refuses *)
(* connections and whose writes may fault.  The loop keeps iterating until  *)
(* told to stop, so the reopen branch is taken whenever it stays enabled;   *)
(* the framework acquires resources before it enters the loop.              *)

LinkNow == {e \in LinkEnvs : e.connOk = link_accepts /\ e.reconnOk = link_accepts}

AcquireLoop == \E e \in LinkNow : onResourceAcquisition(e)
HeartbeatLoop == \E e \in LinkNow : onMainHeartbeat(e)
ReceiveFaultLoop == \E e \in LinkNow : receiveFault(e)
ReopenLoop == \E e \in LinkNow : reopen(e)

NextLoop ==
  \/ AcquireLoop \/ Tick \/ linkChange \/ HeartbeatLoop \/ ReceiveFaultLoop
  \/ ReopenLoop

SpecLoop ==
  Init /\ [][NextLoop]_vars /\ WF_vars(AcquireLoop) /\ WF_vars(ReopenLoop)

----------------------------------------------------------------------------
(* Axis specification: updates that supply values for any subset of three   *)
(* axes (one whose reverse flag depends on the value, two reversible ones), *)
(* at every gain.                                                           *)

AxisChans == {Pitch, Heading, Forward}
AxisValues == {-100, 500}
AxisInputs == UNION {[D -> AxisValues] : D \in SUBSET AxisChans}
AxisEvents == {Event(b, ax) : b \in {{}, {"GainUP"}}, ax \in AxisInputs}

UpdateAxis == \E ev \in AxisEvents : onRemoteActions(ev, CHOOSE e \in LinkFine : TRUE)

NextAxis == AcquireUp \/ UpdateAxis

SpecAxis == Init /\ [][NextAxis]_vars

----------------------------------------------------------------------------
(* Lights specification: updates with every combination of the two light    *)
(* buttons, before and during a session, the start and stop events' idle    *)
(* commands, and JS_LIGHTS_STEPS replies that change the step.              *)

LightSteps == {40, 250}
LightEvents == {Event(b, NoAxes) : b \in SUBSET {"LightBrighter", "LightDimmer"}}
LightBuffers == {ParamValueFrame("JS_LIGHTS_STEPS", v) : v \in LightSteps}

UpdateLights == \E ev \in LightEvents : onRemoteActions(ev, CHOOSE e \in LinkFine : TRUE)
ReceiveLights == \E buf \in LightBuffers : receive(buf)
StopUp == consumeTeleoperationDone(CHOOSE e \in LinkFine : TRUE)

NextLights == AcquireUp \/ StartUp \/ StopUp \/ UpdateLights \/ ReceiveLights

SpecLights == Init /\ [][NextLights]_vars

----------------------------------------------------------------------------
(* Neutral specification: updates that supply one axis with 0, with the     *)
(* Heading channel's neutral or with twice that, or Pitch and Heading       *)
(* together, at every gain from GAIN_INIT to GAIN_MAX.                      *)

NeutralValues == {0, 90, 180}
NeutralInputs ==
  {NoAxes} \cup {(ch :> v) : ch \in 0 .. NAXIS - 1, v \in NeutralValues}
           \cup {(Pitch :> 0) @@ (Heading :> 180)}
NeutralEvents == {Event(b, ax) : b \in {{}, {"GainUP"}}, ax \in NeutralInputs}

UpdateNeutral == \E ev \in NeutralEvents : onRemoteActions(ev, CHOOSE e \in LinkFine : TRUE)

NextNeutral == AcquireUp \/ UpdateNeutral

SpecNeutral == Init /\ [][NextNeutral]_vars

----------------------------------------------------------------------------
(* Properties *)

Last(q) == q[Len(q)]
After(op) == ops[2] = op
Indices(q, P(_)) == {i \in DOMAIN q : P(q[i])}

\* C1: each of the 11 entries of rc_pwm lies in [PWM_MIN, PWM_MAX].  The
\* vector is zero-filled at construction; the property is stated from the
\* first start event on, when idle() has written every channel.
C1_PwmInRange ==
  m_sys_status = "ACTIVE" => \A c \in Chans : InRange(rc_pwm[c], PWM_MIN, PWM_MAX)

\* C2: gain stays within [GAIN_MIN, GAIN_MAX] and a single step changes it by
\* at most gain_step (hundredths).
C2_GainBounded ==
  /\ [](InRange(m_gain, GAIN_MIN, GAIN_MAX))
  /\ [][m_gain' - m_gain <= gain_step /\ m_gain - m_gain' <= gain_step]_vars

\* An update with GainUP has just brought the gain to GAIN_MAX from a value
\* less than one step below it.
C2_Witness ==
  /\ After("RemoteActions") /\ "GainUP" \in last_ev.btn
  /\ m_gain = GAIN_MAX /\ (GAIN_MAX - GAIN_INIT) % gain_step /= 0

\* C3: pitch_trim and roll_trim stay within [TRIM_MIN, TRIM_MAX].
C3_TrimsBounded ==
  /\ InRange(m_pitch_trim, TRIM_MIN, TRIM_MAX)
  /\ InRange(m_roll_trim, TRIM_MIN, TRIM_MAX)

\* An update pressing PitchForward and RollLeft with both trims at their limit.
C3_Witness ==
  /\ After("RemoteActions") /\ {"PitchForward", "RollLeft"} \subseteq last_ev.btn
  /\ m_pitch_trim = TRIM_MAX /\ m_roll_trim = TRIM_MIN

IsSetMode(m) == m.type = "SET_MODE"
ModeIdx == Indices(out, IsSetMode)
ModeRank(name) == CHOOSE i \in DOMAIN ModeButtons : ModeButtons[i] = name
ModesPressed == last_ev.btn \cap {ModeButtons[i] : i \in DOMAIN ModeButtons}

\* C4 as claimed: an update issues at most one mode-change command, the one
\* for the first set flag in the order Stabilize, DepthHold, PositionHold,
\* Manual.
C4_AtMostOneMode ==
  After("RemoteActions") =>
    /\ Cardinality(ModeIdx) <= 1
    /\ \A i \in ModeIdx : \A b \in ModesPressed : ModeRank(out[i].name) <= ModeRank(b)

\* C4 amended: an update issues one mode-change command for each set mode
\* flag, in the order Stabilize, DepthHold, PositionHold, Manual.
C4_OneModePerFlag ==
  After("RemoteActions") =>
    /\ {out[i].name : i \in ModeIdx} = ModesPressed
    /\ Cardinality(ModeIdx) = Cardinality(ModesPressed)
    /\ \A i, j \in ModeIdx : i < j => ModeRank(out[i].name) < ModeRank(out[j].name)

\* An update with all four mode flags, all four commands written to the link.
C4_Witness ==
  /\ After("RemoteActions") /\ Cardinality(ModesPressed) = 4
  /\ Cardinality(ModeIdx) = 4 /\ \A i \in ModeIdx : out[i].tx = "sent"

\* C5: the channel-override message an update transmits carries the current
\* value of all 11 channels.
C5_OverrideCarriesAllChannels ==
  (After("RemoteActions") /\ out /= <<>> /\ Last(out).type = "RC_CHANNELS_OVERRIDE"
     /\ Last(out).tx = "sent")
  => Last(out).arg = [i \in 1 .. NCHAN |-> rc_pwm[i - 1]]

IsRestore(m) == m.type = "PARAM_SET" /\ m.name = "SYSID_MYGCS"

\* C6: when control is held, a stop event or deactivation writes back to
\* SYSID_MYGCS the owner recorded when control was taken.
C6_RestoresPriorOwner ==
  [][(m_sys_status = "ACTIVE" /\ ops'[2] \in {"TeleoperationDone", "Deactivation"})
       => \A i \in Indices(out', IsRestore) : out'[i].arg = <<gcs_prior>>]_vars

IsRelease(m) == m.type = "CHANGE_OPERATOR_CONTROL" /\ m.arg = <<1>>
ReleaseIdx == Indices(out, IsRelease)
IsFault(m) == m.tx = "fault"
AllIdle == \A c \in Chans : rc_pwm[c] = PWM_IDLE
StartThenStop == ops = <<"Teleoperation", "TeleoperationDone">>

\* C7 as claimed: begin-teleoperation followed immediately by
\* end-teleoperation leaves all 11 channels idle and a release-control
\* message has been transmitted on the link.
C7_ReleaseTransmitted ==
  StartThenStop => AllIdle /\ \E i \in ReleaseIdx : out[i].tx = "sent"

\* C7 amended: it leaves all 11 channels idle and hands exactly one
\* release-control message to sendData, which transmits it when the
\* connection is up and no write faults, and skips it when the connection
\* is down.
C7_ReleaseHandedToSend ==
  StartThenStop =>
    /\ AllIdle
    /\ Cardinality(ReleaseIdx) = 1
    /\ \A i \in ReleaseIdx :
         /\ (m_comms /\ Indices(out, IsFault) = {}) => out[i].tx = "sent"
         /\ (~m_comms /\ Indices(out, IsFault) = {}) => out[i].tx = "skipped"

\* Start then stop over a working link: the release message was written.
C7_Witness == StartThenStop /\ AllIdle /\ \E i \in ReleaseIdx : out[i].tx = "sent"

Registered == {MAVLINK_MSG_ID_PARAM_VALUE, MAVLINK_MSG_ID_SYSTEM_TIME,
               MAVLINK_MSG_ID_RC_CHANNELS}
Called(r) == r.call /= NoHandler
Dropped(r) == r.drop /= 0
Unregistered(r) == r.rv /\ r.msgid \notin Registered

\* C8: a handler is invoked only for a completed message of a registered
\* type; a message of any other type invokes none, changes no control
\* state, and the bytes after it are still parsed.
C8_OnlyRegisteredDispatched ==
  /\ [](\A i \in DOMAIN rxlog :
          /\ Called(rxlog[i]) => rxlog[i].rv /\ rxlog[i].msgid \in Registered
          /\ Unregistered(rxlog[i]) =>
               /\ ~Called(rxlog[i])
               /\ rxlog[i].at < Len(m_buf) => rx_n > rxlog[i].at)
  /\ [][(ops'[2] = "Receive" /\ \A i \in DOMAIN rxlog' : rxlog'[i].rv => Unregistered(rxlog'[i]))
          => UNCHANGED <<rc_pwm, rc_reverse, m_gain, m_thr_gain, m_lights_step,
                         m_cam_steps, m_pitch_trim, m_roll_trim, m_gcs, m_sys_status,
                         m_comms, gain_step>>]_vars

\* A buffer in which a message without handler is followed by a parameter
\* value that is dispatched.
C8_Witness ==
  /\ After("Receive")
  /\ \E i, j \in DOMAIN rxlog :
       i < j /\ Unregistered(rxlog[i]) /\ ~Called(rxlog[i]) /\ rxlog[j].call = "handleParams"

HeartbeatGarbageParam(g) == HeartbeatFrame \o g \o CamFrame
Calls(log) == Indices(log, Called)

\* C9 as claimed: a heartbeat, 3 garbage bytes and a parameter value in one
\* buffer give exactly two handler invocations and one parameter update.
C9_TwoHandlerCalls ==
  [][(parser = ParserIdle /\ ops'[2] = "Receive"
        /\ m_buf' \in {HeartbeatGarbageParam(PlainGarbage), HeartbeatGarbageParam(StxGarbage)})
       => Cardinality(Calls(rxlog')) = 2]_vars

\* C9 amended: with the parser idle and no start-of-frame byte among the
\* garbage, both messages are parsed, the heartbeat invokes no handler, and
\* there is exactly one handler invocation, handleParams, which makes the
\* one parameter update.
C9_OneHandlerCall ==
  [][(parser = ParserIdle /\ ops'[2] = "Receive"
        /\ m_buf' = HeartbeatGarbageParam(PlainGarbage))
       => /\ Len(rxlog') = 2
          /\ rxlog'[1].rv /\ rxlog'[1].msgid = MAVLINK_MSG_ID_HEARTBEAT /\ ~Called(rxlog'[1])
          /\ rxlog'[2].call = "handleParams" /\ rxlog'[2].at = Len(m_buf')
          /\ m_cam_steps' = 60
          /\ UNCHANGED <<m_thr_gain, m_lights_step, m_gcs>>]_vars

\* The scenario's buffer has been parsed to its end with one handler call.
C9_Witness ==
  /\ After("Receive") /\ m_buf = HeartbeatGarbageParam(PlainGarbage)
  /\ rx_n = Len(m_buf) /\ Cardinality(Calls(rxlog)) = 1 /\ m_cam_steps = 60

\* C10: once the parser reports a drop, handleData returns: no handler is
\* invoked for that byte and no later byte of the buffer is parsed; messages
\* completed before it were dispatched; the next call parses from its first
\* byte on and dispatches again.
C10_DropEndsTheCall ==
  /\ [](/\ \A i \in DOMAIN rxlog :
             /\ Dropped(rxlog[i]) =>
                  ~Called(rxlog[i]) /\ i = Len(rxlog) /\ rx_n = rxlog[i].at
             /\ (rxlog[i].rv /\ rxlog[i].msgid \in Registered) => Called(rxlog[i])
        /\ Indices(rxlog, Dropped) = {} => rx_n = Len(m_buf))
  /\ [][(rxlog /= <<>> /\ Dropped(Last(rxlog)) /\ ops'[2] = "Receive" /\ m_buf' /= <<>>)
          => /\ rx_n' >= 1
             /\ (parser = ParserIdle /\ m_buf' = CamFrame)
                  => (Len(rxlog') = 1 /\ rxlog'[1].call = "handleParams")]_vars

\* A parameter value was dispatched, then a drop ended the call with bytes
\* of the buffer left unparsed.
C10_Witness ==
  /\ After("Receive") /\ Len(rxlog) >= 2
  /\ rxlog[1].call = "handleParams" /\ Dropped(Last(rxlog)) /\ rx_n < Len(m_buf)

IsOpenNote(m) == m.type = "log" /\ m.name \in {"inf: interface initialized", "war: Connection failed"}
IsOverride(m) == m.type = "RC_CHANNELS_OVERRIDE"
IsUntransmitted(m) == m.tx \in {"skipped", "fault"}
SendProbes == {Heartbeat(m_sys_status), RcOverride(rc_pwm), OperatorControl(1)}

\* C11: with the connection flag false, sendData returns 0, writes nothing
\* and attempts no reconnect; and an update whose closing transmission is
\* skipped or fails keeps the gain and trims it computed and leaves the
\* step values alone.
C11_SendSkipsWhenDown ==
  /\ [](~m_comms =>
          \A e \in LinkEnvs : \A m \in SendProbes :
            LET L == sendData(Link(e), m)
            IN /\ L.res = 0
               /\ L.out = <<[m EXCEPT !.tx = "skipped"]>>
               /\ L.comms = m_comms /\ L.socket = m_socket /\ L.sender = m_sender
               /\ L.plan = e.plan)
  /\ [][(ops'[2] = "RemoteActions" /\ \E i \in Indices(out', IsOverride) : IsUntransmitted(out'[i]))
          => /\ m_gain' = gainAfter(m_gain, last_ev'.btn)
             /\ m_pitch_trim' = trimAfter(m_pitch_trim, last_ev'.btn, "PitchForward", "PitchBackward")
             /\ m_roll_trim' = trimAfter(m_roll_trim, last_ev'.btn, "RollRight", "RollLeft")
             /\ UNCHANGED <<gain_step, m_thr_gain, m_lights_step, m_cam_steps>>]_vars

\* An update raised the gain and the pitch trim while the connection was
\* down: its override was skipped, nothing else happened on the link.
C11_Witness ==
  /\ After("RemoteActions") /\ ~m_comms /\ ~m_socket
  /\ last_ev.btn = {"GainUP", "PitchForward"}
  /\ m_gain > GAIN_INIT /\ m_pitch_trim > 0
  /\ Len(out) = 1 /\ IsOverride(out[1]) /\ out[1].tx = "skipped"

\* C12: a call of sendData whose write faults makes one reopen attempt and
\* returns, whatever the link does; here the call is the single actuate()
\* of an update without buttons.
C12_OneReopenPerSend ==
  (After("RemoteActions") /\ last_ev.btn = {})
    => Cardinality(Indices(out, IsOpenNote)) <= 1

IsHeartbeat(m) == m.type = "HEARTBEAT"
IsConnected(m) == m.type = "log" /\ m.name = "inf: interface initialized"

Connected == m_comms /\ m_socket /\ m_sender
SocketAbsent == phase = "running" /\ ~m_socket

\* C14 as claimed, last part: a reopen attempt of the main loop resets the
\* heartbeat counter only when the attempt succeeds.
C14_TimerResetOnlyOnSuccess ==
  [][(ops'[2] = "Reopen" /\ m_timer > 0 /\ m_timer' = 0) => m_comms']_vars

\* C14 amended: while the inbound socket is absent and the loop runs, the
\* main loop eventually makes a reopen attempt; if the link accepts
\* connections from some point on, an absent socket always leads to the
\* connected state with both sockets present; and every reopen attempt of
\* the main loop resets the heartbeat counter, successful or not.
C14_ReopenEventually ==
  /\ (SocketAbsent /\ ops[2] /= "Reopen") ~> (ops[2] = "Reopen")
  /\ <>[]link_accepts => [](SocketAbsent => <>Connected)
  /\ [][ops'[2] = "Reopen" => m_timer' = 0]_vars

\* The link began to accept connections while the socket was absent, and
\* the main loop's reopen attempt has connected both sockets.
C14_Witness ==
  /\ ops = <<"LinkChange", "Reopen">> /\ link_accepts /\ Connected /\ m_timer = 0

Untx(m) == [m EXCEPT !.tx = ""]
Handed(q) == [i \in DOMAIN q |-> Untx(q[i])]
RECURSIVE IsSubseq(_, _)
IsSubseq(a, b) ==
  IF a = <<>> THEN TRUE
  ELSE IF b = <<>> THEN FALSE
  ELSE IF Head(a) = Head(b) THEN IsSubseq(Tail(a), Tail(b))
  ELSE IsSubseq(a, Tail(b))
IsLog(m) == m.type = "log"
IsBus(m) == m.type = "bus"
NotLog(m) == ~IsLog(m)

StartOrder ==
  <<ParamSet("SYSID_MYGCS", SYSID), OperatorControl(0)>>
    \o [i \in 1 .. 6 |-> ParamRequestRead(js_params_id[i])]
    \o <<ParamRequestRead("SYSID_MYGCS"), SetMode("Manual"), ArmDisarm(1),
         RcOverride(IdlePwm), Note("bus", "enableControlLoops")>>

\* C15: a start event hands to the link, in this order, the PARAM_SET of
\* SYSID_MYGCS to this system's identifier, the take-control message, the
\* requests for the six JS_* parameters and then for SYSID_MYGCS, the
\* manual-mode command and the arm command (then the idle override), and
\* enables the control loops only after all of them; when no write faults
\* these are all the messages of the start event.
C15_StartOrder ==
  After("Teleoperation") =>
    /\ IsSubseq(Handed(StartOrder), Handed(out))
    /\ IsBus(Last(out)) /\ Cardinality(Indices(out, IsBus)) = 1
    /\ Indices(out, IsFault) = {} => Handed(SelectSeq(out, NotLog)) = Handed(StartOrder)

\* A start event over a working link: every message was written.
C15_Witness ==
  /\ After("Teleoperation") /\ m_comms
  /\ \A i \in DOMAIN out : out[i].tx \in {"sent", "log", "bus"}
  /\ Cardinality(Indices(out, IsBus)) = 1

ReplyValues == {5, 60, 200}

\* C16: a parameter-value reply naming one of the six js_params_id names
\* leaves its value in a local control-state field (gain, gain step,
\* throttle gain, light step or camera step).
C16_SpecialParamUpdatesField ==
  [][(parser = ParserIdle /\ ops'[2] = "Receive")
       => \A i \in DOMAIN js_params_id : \A v \in ReplyValues :
            m_buf' = ParamValueFrame(js_params_id[i], v)
              => v \in {m_gain', gain_step', m_thr_gain', m_lights_step', m_cam_steps'}]_vars

ContentionWarning == Note("log", "war: Ardupilot Ground Control Station is not DUNE")
ContendingReply(v) ==
  /\ parser = ParserIdle /\ ops'[2] = "Receive"
  /\ m_buf' = ParamValueFrame("SYSID_MYGCS", v)
  /\ v /= m_gcs /\ v /= SYSID
QuietHandling ==
  /\ \A i \in DOMAIN out' : out'[i] = ContentionWarning
  /\ UNCHANGED <<m_sys_status, m_gain, m_pitch_trim, m_roll_trim, rc_pwm, rc_reverse,
                 m_comms, m_socket, m_sender>>

\* C17 as claimed: a SYSID_MYGCS reply whose value differs from the recorded
\* owner and from this system's identifier surfaces a warning, sends no
\* packet and changes neither the session status, the gain, the trims nor
\* the actuator vector.
C17_ContentionWarns ==
  [][\A v \in GcsValues :
       ContendingReply(v) => out' = <<ContentionWarning>> /\ QuietHandling]_vars

\* C17 amended: such a reply surfaces the warning exactly when the task is
\* active; in every case the recorded owner becomes the received value, no
\* packet is sent and the session status, gain, trims and actuator vector
\* are unchanged.
C17_ContentionWarnsWhenActive ==
  [][\A v \in GcsValues :
       ContendingReply(v)
         => /\ out' = IF active THEN <<ContentionWarning>> ELSE <<>>
            /\ m_gcs' = v
            /\ QuietHandling]_vars

\* A contending reply has been handled during a session of the active task:
\* the warning is out and the recorded owner is the contender.
C17_Witness ==
  /\ After("Receive") /\ active /\ m_sys_status = "ACTIVE"
  /\ out = <<ContentionWarning>> /\ m_gcs = 7 /\ gcs_prior /= 7

\* C18: an update honours exactly one of GainUP and GainDown: with GainUP
\* set (alone or with GainDown) the gain becomes min(gain + gain_step,
\* GAIN_MAX), with only GainDown set max(gain - gain_step, GAIN_MIN), and
\* otherwise it stays; so with gain_step 10 a GainUP-only update adds 10
\* hundredths until GAIN_MAX, where the gain remains.
C18_GainUpHasPriority ==
  /\ [][ops'[2] = "RemoteActions"
          => m_gain' = IF "GainUP" \in last_ev'.btn THEN Min(m_gain + gain_step, GAIN_MAX)
                       ELSE IF "GainDown" \in last_ev'.btn
                         THEN Max(m_gain - gain_step, GAIN_MIN)
                       ELSE m_gain]_vars
  /\ [][(ops'[2] = "RemoteActions" /\ gain_step = 10 /\ last_ev'.btn = {"GainUP"})
          => m_gain' = IF m_gain = GAIN_MAX THEN GAIN_MAX ELSE m_gain + 10]_vars

\* The first update had both flags set and raised the gain by one step of 10.
C18_Witness ==
  /\ ops = <<"ResourceAcquisition", "RemoteActions">>
  /\ last_ev.btn = {"GainUP", "GainDown"}
  /\ gain_step = 10 /\ m_gain = GAIN_INIT + 10

IdleOps == {"Teleoperation", "TeleoperationDone", "Deactivation", "ResourceRelease"}

\* C19: the camera-tilt channel keeps its value from one update to the
\* next; an update changes it only by TiltUP (+m_cam_steps, capped at
\* PWM_MAX), TiltDown (-m_cam_steps, floored at PWM_MIN) or Center, and
\* otherwise only an idle command does; with a step of 50, TiltUP from 1500
\* gives 1550, TiltDown from 1600 gives 1550 and TiltUP at 1900 stays.
C19_TiltPersists ==
  /\ [][ops'[2] = "RemoteActions"
          => rc_pwm'[Camera_Tilt] =
               IF "TiltUP" \in last_ev'.btn
                 THEN Min(rc_pwm[Camera_Tilt] + m_cam_steps, PWM_MAX)
               ELSE IF "TiltDown" \in last_ev'.btn
                 THEN Max(rc_pwm[Camera_Tilt] - m_cam_steps, PWM_MIN)
               ELSE IF "Center" \in last_ev'.btn THEN PWM_IDLE
               ELSE rc_pwm[Camera_Tilt]]_vars
  /\ [][rc_pwm'[Camera_Tilt] /= rc_pwm[Camera_Tilt]
          => \/ ops'[2] = "RemoteActions" /\ last_ev'.btn \cap {"TiltUP", "TiltDown", "Center"} /= {}
             \/ ops'[2] \in IdleOps /\ rc_pwm'[Camera_Tilt] = PWM_IDLE]_vars
  /\ [][(ops'[2] = "RemoteActions" /\ m_cam_steps = 50)
          => /\ (last_ev'.btn = {"TiltUP"} /\ rc_pwm[Camera_Tilt] = 1500)
                  => rc_pwm'[Camera_Tilt] = 1550
             /\ (last_ev'.btn = {"TiltDown"} /\ rc_pwm[Camera_Tilt] = 1600)
                  => rc_pwm'[Camera_Tilt] = 1550
             /\ (last_ev'.btn = {"TiltUP"} /\ rc_pwm[Camera_Tilt] = 1900)
                  => rc_pwm'[Camera_Tilt] = 1900]_vars

\* Two updates with a step of 50, the first TiltUP from idle and the second
\* without tilt flags: the channel still holds 1550.
C19_Witness ==
  /\ ops = <<"RemoteActions", "RemoteActions">> /\ last_ev.btn = {"LightBrighter"}
  /\ m_cam_steps = 50 /\ rc_pwm[Camera_Tilt] = 1550

Axes == 0 .. NAXIS - 1

\* C20: after an update whose event supplies no value for an axis, that
\* axis channel holds PWM_IDLE and its reverse flag is false, whatever the
\* channel and the flag held before.
C20_AxisIdleWithoutInput ==
  [][ops'[2] = "RemoteActions"
       => \A ch \in Axes :
            ch \notin DOMAIN last_ev'.ax => rc_pwm'[ch] = PWM_IDLE /\ ~rc_reverse'[ch]]_vars

\* The second of two updates supplied Forward only, after which Forward is
\* off idle while Pitch and Heading are idle and not reversed.
C20_Witness ==
  /\ ops = <<"RemoteActions", "RemoteActions">> /\ DOMAIN last_ev.ax = {Forward}
  /\ rc_pwm[Forward] /= PWM_IDLE
  /\ rc_pwm[Pitch] = PWM_IDLE /\ ~rc_reverse[Pitch] /\ rc_pwm[Heading] = PWM_IDLE

\* C21: the two light channels hold the same value in every state, through
\* LightBrighter and LightDimmer updates, idle commands and parameter
\* replies.
C21_LightsTogether == rc_pwm[Lights_1_Level] = rc_pwm[Lights_2_Level]

\* After a reply changed the light step, a LightDimmer update has moved both
\* channels off idle to the same value.
C21_Witness ==
  /\ After("RemoteActions") /\ last_ev.btn = {"LightDimmer"}
  /\ m_lights_step = 250 /\ m_sys_status = "ACTIVE"
  /\ rc_pwm[Lights_1_Level] = PWM_IDLE - 250 /\ rc_pwm[Lights_2_Level] = PWM_IDLE - 250

IsList(m) == m.type = "PARAM_REQUEST_LIST"
IsFailsafe(m) == m.type = "PARAM_SET" /\ m.name = "FS_GCS_ENABLE" /\ m.arg = <<FS_GCS_DEPTH_HOLD>>
IsSent(m) == m.tx = "sent"
Upto(q, n) == SubSeq(q, 1, n)
ConnectedAt == Indices(out, IsConnected)

\* C22 as claimed: after every successful connection the request for the
\* parameter list and then the FS_GCS_ENABLE = 3 parameter-set are sent.
C22_BothSentOnEveryConnect ==
  \A i \in ConnectedAt :
    \E j, k \in DOMAIN out :
      /\ i < j /\ j < k
      /\ IsList(out[j]) /\ IsSent(out[j]) /\ IsFailsafe(out[k]) /\ IsSent(out[k])

\* C22 amended: every successful connection, first or repeated, hands to
\* sendData the request for SYSID_MYGCS, then the request for the parameter
\* list, then the FS_GCS_ENABLE = 3 parameter-set; a failsafe set is never
\* handed over before the list request of its handshake; when no write
\* faults the three are transmitted, one after the other, right after the
\* connection is made.
C22_HandshakeOrder ==
  /\ \A i \in ConnectedAt :
       /\ i < Len(out) /\ Untx(out[i + 1]) = Untx(ParamRequestRead("SYSID_MYGCS"))
       /\ \E j, k \in DOMAIN out : i < j /\ j < k /\ IsList(out[j]) /\ IsFailsafe(out[k])
       /\ Indices(out, IsFault) = {} =>
            /\ i + 3 <= Len(out)
            /\ IsList(out[i + 2]) /\ IsFailsafe(out[i + 3])
            /\ \A n \in 1 .. 3 : IsSent(out[i + n])
  /\ \A n \in DOMAIN out :
       Cardinality(Indices(Upto(out, n), IsFailsafe)) <= Cardinality(Indices(Upto(out, n), IsList))
  /\ Cardinality(Indices(out, IsFailsafe)) = Cardinality(Indices(out, IsList))
  /\ Cardinality(Indices(out, IsList)) = Cardinality(ConnectedAt)

\* The main loop's reopen attempt, made after a read fault whose reconnection
\* failed, has connected and transmitted the handshake in order.
C22_Witness ==
  /\ ops = <<"ReceiveFault", "Reopen">> /\ Connected
  /\ Len(out) = 5 /\ IsConnected(out[1])
  /\ IsList(out[3]) /\ IsSent(out[3]) /\ IsFailsafe(out[4]) /\ IsSent(out[4])

IsArmDisarm(m) == m.type = "COMMAND_LONG" /\ m.name = "COMPONENT_ARM_DISARM"
ArmIdx == Indices(out, IsArmDisarm)
OverrideIdx == Indices(out, IsOverride)

\* C23: an update with both the Arm and the Disarm flag set issues both
\* commands, the disarm command first and the arm command right after it,
\* and both before the channel override that ends the update; with one of
\* the flags set only that command is issued, with none neither.
C23_DisarmThenArm ==
  After("RemoteActions") =>
    /\ OverrideIdx = {Len(out)}
    /\ \A i \in ArmIdx : i < Len(out) /\ \A j \in ModeIdx : j < i
    /\ ("Disarm" \in last_ev.btn) = (\E i \in ArmIdx : out[i].arg = <<0>>)
    /\ ("Arm" \in last_ev.btn) = (\E i \in ArmIdx : out[i].arg = <<1>>)
    /\ Cardinality(ArmIdx) = Cardinality(last_ev.btn \cap {"Arm", "Disarm"})
    /\ {"Arm", "Disarm"} \subseteq last_ev.btn =>
         \E i \in ArmIdx : /\ out[i].arg = <<0>> /\ out[i + 1].arg = <<1>>
                            /\ ArmIdx = {i, i + 1}
                            /\ out[i].tx = Last(out).tx /\ out[i + 1].tx = Last(out).tx

\* An update with both flags and no mode flag over a connected link: the
\* disarm command, the arm command and the override were written, in that
\* order and nothing else.
C23_Witness ==
  /\ After("RemoteActions") /\ last_ev.btn = {"Arm", "Disarm"} /\ m_comms
  /\ Len(out) = 3 /\ \A i \in 1 .. 3 : IsSent(out[i])
  /\ out[1].arg = <<0>> /\ out[2].arg = <<1>> /\ IsOverride(out[3])

Scaled(ch) == last_ev.ax[ch] * m_gain
AtNeutral(ch) == Scaled(ch) = val_neutral[ch + 1] * 100

ReleaseOps == {"TeleoperationDone", "Deactivation", "ResourceRelease"}

\* C25: the recorded previous controller m_gcs is never this system's own
\* identifier, whatever integer SYSID_MYGCS replies arrive (the identifier
\* itself among them), so the SYSID_MYGCS value that releasing control
\* writes back is never this system's own identifier.
C25_OwnerNeverSelf ==
  /\ m_gcs /= SYSID
  /\ ops[2] \in ReleaseOps => \A i \in Indices(out, IsRestore) : out[i].arg /= <<SYSID>>

\* A reply naming this system's identifier arrived after another station
\* had been recorded; the stop event that followed wrote that station back.
C25_Witness ==
  /\ ops = <<"Receive", "TeleoperationDone">>
  /\ m_buf = ParamValueFrame("SYSID_MYGCS", SYSID) /\ m_gcs = 7
  /\ \E i \in Indices(out, IsRestore) : out[i].arg = <<7>> /\ IsSent(out[i])

\* C26 as claimed: in every state after resource acquisition, resource
\* release included, m_comms is true only if the sender socket exists.
C26_CommsImpliesSender == phase /= "constructed" => (m_comms => m_sender)

\* C26 amended: while the task holds its resources, m_comms is true only if
\* both sockets exist, through connection failures, send faults and receive
\* faults, and every send and every connection attempt made from such a
\* state keeps it so, so that a send never writes to a missing socket;
\* resource release frees both sockets and leaves m_comms as it was, until
\* the next acquisition sets it again.
C26_CommsImpliesSenderWhileRunning ==
  /\ phase = "running" => (m_comms => m_sender /\ m_socket)
  /\ phase = "released" => ~m_sender /\ ~m_socket
  /\ (m_comms => m_sender) =>
       \A e \in LinkEnvs :
         /\ \A m \in SendProbes : \E L \in {sendData(Link(e), m)} : L.comms => L.sender
         /\ \E L \in {openConnection(Link(e))} : L.comms => L.sender

\* The task released its resources and acquired them again; during the
\* acquisition a write faulted and the reconnection succeeded.
C26_Witness ==
  /\ ops = <<"ResourceRelease", "ResourceAcquisition">>
  /\ Indices(out, IsFault) /= {} /\ Cardinality(ConnectedAt) >= 2
  /\ m_comms /\ m_sender /\ m_socket

====
